---- MODULE Spec2Model ----
(***************************************************************************)
(* SpliceJunctionDiscovery: the CIGAR walker, the per-region scan and the  *)
(* per-gene fan-out with its final merge; then the scripts that run on its *)
(* output: the normalization against a reference model, the reformatting   *)
(* of a single-sample output and the re-aggregation of reformatted tables. *)
(*                                                                         *)
(* Strings the code takes apart with split / re.findall are sequences of   *)
(* one-character strings; strings the code only compares or joins (sample  *)
(* ids, chromosome names) are TLA+ strings.  A raised Python exception is  *)
(* the "exc" field of a result record ("none" when nothing was raised).    *)
(***************************************************************************)
EXTENDS Integers, Sequences, FiniteSets, TLC

\* ------------------------------------------------------------------------
\* Bounds of the model
\* ------------------------------------------------------------------------
MaxRuns == 3

MaxScanRuns == 3
MaxLines == 2
MaxRegions == 2

MaxRows == 2
MaxSources == 2

MaxEntries == 2
MaxJunctions == 2

MaxDataRows == 2

\* ------------------------------------------------------------------------
\* State
\* ------------------------------------------------------------------------
\* the walker called on one record
VARIABLES
    ex_runs,      \* the operation runs of the record handed to the walker
    ex_cigar,     \* cigar_string
    ex_chrom,     \* t_chrom
    ex_pos,       \* pos
    ex_first,     \* result of get_first_splice_junction
    ex_second,    \* result of get_second_splice_junction
    ex_pc         \* "start", "first" (first junction computed), "second"

ex_vars == <<ex_runs, ex_cigar, ex_chrom, ex_pos, ex_first, ex_second, ex_pc>>

\* find_splice_junctions over the lines of one samtools view output
VARIABLES
    line,                     \* the line the for loop is on
    n_read,                   \* how many lines the loop has fetched
    splice_junctions,         \* the defaultdict(int) being built
    unique_splice_junction,   \* the local of that name
    scan_exc,                 \* the exception that left the function, if any
    clean_junctions,          \* the same scan over the well-formed lines only
    clean_usj,
    scan_pc                   \* "fetch", "body", "returned", "raised"

scan_vars == <<line, n_read, splice_junctions, unique_splice_junction,
               scan_exc, clean_junctions, clean_usj, scan_pc>>

\* main: the fan-out over the genes and the final merge
VARIABLES
    transcript_lines,   \* the lines of the transcript file
    sample_ids,         \* the keys of the sample dict, in its iteration order
    pool_args,          \* the list handed to pool.map
    tasks,              \* per element of pool_args: its worker's progress
    files,              \* output_dir: file name -> the rows in the file
    final,              \* final.txt: its header and rows, once written
    main_pc             \* "args", "map", "merge", "done", "crashed"

main_vars == <<transcript_lines, sample_ids, pool_args, tasks, files, final,
               main_pc>>

\* combineJunctionAcrossSamples.py: main over the reformatted tables of a folder
VARIABLES
    input_junction_folder,   \* the tables of the folder, in glob order
    agg_sample_ids,          \* sample_ids of the first loop
    agg_f,                   \* the table the running loop is on
    agg_r,                   \* the row of that table the second loop is on
    all_juncs_dict,          \* the OrderedDict being built, in insertion order
    output_df,               \* the rows written to <sample_set_id>_allsplicejunctions.tsv
    first_output,            \* the rows the first run wrote, once it is fed back
    agg_exc,                 \* the exception that ended the run, if any
    agg_pc                   \* "ids", "rows", "finish", "done", "raised"

agg_vars == <<input_junction_folder, agg_sample_ids, agg_f, agg_r,
              all_juncs_dict, output_df, first_output, agg_exc, agg_pc>>

\* SpliceJunctionNormalization.py: main with --normalize
VARIABLES
    transcript_model,        \* the entries of the reference model
    annotated_junction_set,  \* result of make_annotated_junction_set
    norm_junctions,          \* splice_junctions: the junction dicts of the splice file
    annotated_counts,        \* the index get_annotated_counts builds
    norm_i,                  \* the junction the running loop is on
    printed,                 \* the lines normalize_counts has printed
    norm_exc,                \* the exception that ended main, if any
    norm_pc                  \* "set", "index", "normalize", "done", "raised"

norm_vars == <<transcript_model, annotated_junction_set, norm_junctions,
               annotated_counts, norm_i, printed, norm_exc, norm_pc>>

\* spliceJunctionReformat.py: junctions_from_file
VARIABLES
    splice_file,             \* the lines of the file, header first
    sample_id,               \* the sample id read off the header
    file_lines,              \* the lines the loop runs over
    reformat_l,              \* the line of file_lines the loop is on
    junctions,               \* the list junctions_from_file builds
    reformat_exc,            \* the exception that ended the call, if any
    reformat_pc              \* "open", "rows", "done", "raised"

reformat_vars == <<splice_file, sample_id, file_lines, reformat_l, junctions,
                   reformat_exc, reformat_pc>>

post_vars == <<agg_vars, norm_vars, reformat_vars>>

vars == <<ex_vars, scan_vars, main_vars, post_vars>>

\* ------------------------------------------------------------------------
\* Python string primitives used by the CIGAR walker
\* ------------------------------------------------------------------------
Digits == {"0", "1", "2", "3", "4", "5", "6", "7", "8", "9"}

UpperLetters ==
    {"A", "B", "C", "D", "E", "F", "G", "H", "I", "J", "K", "L", "M",
     "N", "O", "P", "Q", "R", "S", "T", "U", "V", "W", "X", "Y", "Z"}

DigitVal(c) ==
    CASE c = "0" -> 0 [] c = "1" -> 1 [] c = "2" -> 2 [] c = "3" -> 3
      [] c = "4" -> 4 [] c = "5" -> 5 [] c = "6" -> 6 [] c = "7" -> 7
      [] c = "8" -> 8 [] c = "9" -> 9

\* int(s) for a non-empty string of decimal digits
RECURSIVE py_int(_)
py_int(s) ==
    IF s = <<>> THEN 0
    ELSE 10 * py_int(SubSeq(s, 1, Len(s) - 1)) + DigitVal(s[Len(s)])

\* s.split(sep): the pieces between the occurrences of the character sep
RECURSIVE py_split(_, _)
py_split(s, sep) ==
    IF \A i \in 1..Len(s) : s[i] # sep THEN <<s>>
    ELSE LET i == CHOOSE k \in 1..Len(s) :
                      s[k] = sep /\ \A j \in 1..(k - 1) : s[j] # sep
         IN  <<SubSeq(s, 1, i - 1)>> \o py_split(SubSeq(s, i + 1, Len(s)), sep)

\* s.count(c)
py_count(s, c) == Cardinality({i \in 1..Len(s) : s[i] = c})

\* re.findall('\d+', s): the maximal runs of digits, left to right
RECURSIVE findall_digits(_)
findall_digits(s) ==
    IF s = <<>> THEN <<>>
    ELSE IF s[1] \notin Digits THEN findall_digits(Tail(s))
    ELSE LET n == CHOOSE k \in 1..Len(s) :
                      /\ \A j \in 1..k : s[j] \in Digits
                      /\ (k = Len(s) \/ s[k + 1] \notin Digits)
         IN  <<SubSeq(s, 1, n)>> \o findall_digits(SubSeq(s, n + 1, Len(s)))

\* re.findall('[A-Z]', s)
IsUpper(c) == c \in UpperLetters
findall_letters(s) == SelectSeq(s, IsUpper)

\* ------------------------------------------------------------------------
\* The CIGAR walker
\* ------------------------------------------------------------------------
NoExc == "none"
Raise(e) == [exc |-> e, val |-> <<>>]
Return(v) == [exc |-> NoExc, val |-> v]

\* int(found[-1]): IndexError when nothing was found
last_number(found) ==
    IF found = <<>> THEN Raise("IndexError")
    ELSE Return(py_int(found[Len(found)]))

\* int(re.findall('\d+', cigar_string.split('N')[0])[-1])
length_of_first_intronic_section(cigar_string) ==
    last_number(findall_digits(py_split(cigar_string, "N")[1]))

\* an insertion counted as reference-consuming
ExcludedLetters_NoInsertion == {"S", "P", "H"}
ExcludedLetters == {"I", "S", "P", "H"}

\* the sum over zip(numbers, letters) of the numbers whose letter is kept
RECURSIVE zip_sum(_, _)
zip_sum(numbers, letters) ==
    IF numbers = <<>> \/ letters = <<>> THEN 0
    ELSE (IF letters[1] \notin ExcludedLetters THEN numbers[1] ELSE 0)
         + zip_sum(Tail(numbers), Tail(letters))

\* [int(n) for n in found][0:-1]
numbers_but_last(found) ==
    [i \in 1..(IF found = <<>> THEN 0 ELSE Len(found) - 1) |-> py_int(found[i])]

\* numbers and letters of pre_N, zipped and summed
sum_of_pre_N(pre_N) ==
    zip_sum(numbers_but_last(findall_digits(pre_N)), findall_letters(pre_N))

num_of_matches_before_first_intronic_section(cigar_string) ==
    sum_of_pre_N(py_split(cigar_string, "N")[1])

\* '{},{},{}'.format(chrom, start, end): the key is kept as the list of its
\* comma-separated fields (no field holds a comma)
format_junction(t_chrom, intron_start, intron_end) ==
    <<t_chrom, intron_start, intron_end>>

\* int(unique_splice_junction.split(',')[2])
get_end_position_from_junction(junction) ==
    junction[3]

\* the key of the intron of length len.val that starts num bases after base
junction_at(len, num, t_chrom, base) ==
    IF len.exc # NoExc THEN Raise(len.exc)
    ELSE Return(format_junction(t_chrom, base + num, base + num + len.val))

get_first_splice_junction(cigar_string, t_chrom, pos) ==
    junction_at(length_of_first_intronic_section(cigar_string),
                num_of_matches_before_first_intronic_section(cigar_string),
                t_chrom, pos)

\* the walker applied to section_after_first_intron
junction_after(section, t_chrom, first_end) ==
    junction_at(length_of_first_intronic_section(section),
                num_of_matches_before_first_intronic_section(section),
                t_chrom, first_end)

\* the second junction measured from the read position, not from the end
\* of the first junction
get_second_splice_junction_from_pos(cigar_string, t_chrom, pos, first_end) ==
    IF Len(py_split(cigar_string, "N")) < 2 THEN Raise("IndexError")
    ELSE junction_after(py_split(cigar_string, "N")[2], t_chrom, pos)

get_second_splice_junction(cigar_string, t_chrom, pos, first_end) ==
    IF Len(py_split(cigar_string, "N")) < 2 THEN Raise("IndexError")
    ELSE junction_after(py_split(cigar_string, "N")[2], t_chrom, first_end)

\* ------------------------------------------------------------------------
\* Alignment records as the retrieval tool writes them: a CIGAR string is
\* the concatenation of <decimal length><letter> for each operation run
\* ------------------------------------------------------------------------
RunKinds == {"M", "I", "D", "N", "S", "H", "P"}
RunLengths == {2, 13}
Run == [length : RunLengths, kind : RunKinds]

DigitChar == <<"0", "1", "2", "3", "4", "5", "6", "7", "8", "9">>

\* str(n) for n >= 0
RECURSIVE py_str(_)
py_str(n) ==
    IF n < 10 THEN <<DigitChar[n + 1]>>
    ELSE py_str(n \div 10) \o <<DigitChar[(n % 10) + 1]>>

RECURSIVE Encode(_)
Encode(runs) ==
    IF runs = <<>> THEN <<>>
    ELSE py_str(runs[1].length) \o <<runs[1].kind>> \o Encode(Tail(runs))

RunSeqs == UNION {[1..n -> Run] : n \in 1..MaxRuns}

Mk(l, k) == [length |-> l, kind |-> k]
\* the CIGAR strings of the unit tests
TestRuns ==
    { <<Mk(3, "M"), Mk(1, "D"), Mk(40, "M"), Mk(20, "N")>>,
      <<Mk(13, "M"), Mk(221400, "N"), Mk(34, "M"), Mk(2658, "N"), Mk(29, "M")>>,
      <<Mk(8, "S"), Mk(13, "M"), Mk(221400, "N"), Mk(34, "M"), Mk(2658, "N"),
        Mk(29, "M")>>,
      <<Mk(22, "M"), Mk(1, "I"), Mk(19, "M"), Mk(1893, "N"), Mk(6, "M")>> }

Chroms == {<<"2">>, <<"X">>}
ReadPositions == {1, 5}


NotCalled == [exc |-> "not called", val |-> <<>>]

ExtractInit ==
    /\ ex_runs \in RunSeqs \cup TestRuns
    /\ ex_cigar = Encode(ex_runs)
    /\ ex_chrom \in Chroms
    /\ ex_pos \in ReadPositions
    /\ ex_first = NotCalled
    /\ ex_second = NotCalled
    /\ ex_pc = "start"

CallFirst ==
    /\ ex_pc = "start"
    /\ ex_first' = get_first_splice_junction(ex_cigar, ex_chrom, ex_pos)
    /\ ex_pc' = "first"
    /\ UNCHANGED <<ex_runs, ex_cigar, ex_chrom, ex_pos, ex_second>>
    /\ UNCHANGED <<scan_vars, main_vars, post_vars>>

CallSecond ==
    /\ ex_pc = "first"
    /\ ex_first.exc = NoExc
    /\ ex_second' = get_second_splice_junction(
                        ex_cigar, ex_chrom, ex_pos,
                        get_end_position_from_junction(ex_first.val))
    /\ ex_pc' = "second"
    /\ UNCHANGED <<ex_runs, ex_cigar, ex_chrom, ex_pos, ex_first>>
    /\ UNCHANGED <<scan_vars, main_vars, post_vars>>

ExtractNext == CallFirst \/ CallSecond

\* the walker does not run in the other specifications
ExtractIdle ==
    /\ ex_runs = <<>>
    /\ ex_cigar = <<>>
    /\ ex_chrom = <<"2">>
    /\ ex_pos = 0
    /\ ex_first = NotCalled
    /\ ex_second = NotCalled
    /\ ex_pc = "idle"

\* ------------------------------------------------------------------------
\* find_splice_junctions: the scan of one sample's records over one region
\* ------------------------------------------------------------------------
SAM_POS_COL_INDEX == 3
SAM_CIGAR_COL_INDEX == 5

\* the region scanned: t_chrom, t_start, t_stop
Region == [chrom |-> <<"2">>, start |-> 2, stop |-> 4]

\* int(text) of a field: ValueError unless the field is a decimal number
py_int_checked(text) ==
    IF text # <<>> /\ \A i \in 1..Len(text) : text[i] \in Digits
    THEN Return(py_int(text))
    ELSE Raise("ValueError")

\* t_start < pos < t_stop
InRegion_Inclusive(pos, t_start, t_stop) == t_start <= pos /\ pos <= t_stop
InRegion(pos, t_start, t_stop) == t_start < pos /\ pos < t_stop

\* cigar_string.count('N') <= 2
AccountsFirst_Always(cigar_string) == TRUE
AccountsFirst_OnlyOne(cigar_string) == py_count(cigar_string, "N") <= 1
AccountsFirst(cigar_string) == py_count(cigar_string, "N") <= 2

\* splice_junctions[key] += 1 on a defaultdict(int)
Incr(counts, key) ==
    IF key \in DOMAIN counts THEN [counts EXCEPT ![key] = @ + 1]
    ELSE counts @@ (key :> 1)

Unbound == [bound |-> FALSE, val |-> <<>>]
Bound(v) == [bound |-> TRUE, val |-> v]

Locals(sj, usj, exc) == [sj |-> sj, usj |-> usj, exc |-> exc]

\* splice_junctions[unique_splice_junction] += 1 once the walker returned
\* r; a raised exception leaves both as they were
count_junction(r, sj, usj) ==
    IF r.exc # NoExc THEN Locals(sj, usj, r.exc)
    ELSE Locals(Incr(sj, r.val), Bound(r.val), NoExc)

\* the first if of the loop body (lines 122-124)
first_branch(cigar_string, t, pos, sj, usj) ==
    IF ~AccountsFirst(cigar_string) THEN Locals(sj, usj, NoExc)
    ELSE count_junction(get_first_splice_junction(cigar_string, t.chrom, pos),
                        sj, usj)

\* the second if of the loop body (lines 128-133), entered with the locals
\* a the first if left
second_branch(cigar_string, t, pos, a) ==
    IF a.exc # NoExc THEN a
    ELSE IF py_count(cigar_string, "N") # 2 THEN a
    ELSE IF ~a.usj.bound THEN Locals(a.sj, a.usj, "UnboundLocalError")
    ELSE count_junction(
             get_second_splice_junction(
                 cigar_string, t.chrom, pos,
                 get_end_position_from_junction(a.usj.val)),
             a.sj, a.usj)

\* lines 119-133, with p the outcome of int(split_line[SAM_POS_COL_INDEX])
record_body(cigar_string, p, t, sj, usj) ==
    IF p.exc # NoExc THEN Locals(sj, usj, p.exc)
    ELSE IF ~(py_count(cigar_string, "N") > 0
              /\ InRegion(p.val, t.start, t.stop))
    THEN Locals(sj, usj, NoExc)
    ELSE second_branch(cigar_string, t, p.val,
                       first_branch(cigar_string, t, p.val, sj, usj))

\* the try block of the loop body (lines 117-133) for one split line
try_block(split_line, t, sj, usj) ==
    IF Len(split_line) < SAM_CIGAR_COL_INDEX + 1
    THEN Locals(sj, usj, "IndexError")
    ELSE record_body(split_line[SAM_CIGAR_COL_INDEX + 1],
                     py_int_checked(split_line[SAM_POS_COL_INDEX + 1]),
                     t, sj, usj)

\* except IndexError: pass
except_IndexError(r) ==
    IF r.exc = "IndexError" THEN Locals(r.sj, r.usj, NoExc) ELSE r

loop_body(split_line, t, sj, usj) ==
    except_IndexError(try_block(split_line, t, sj, usj))

\* The lines of a samtools view output -------------------------------------
ScanRun == [length : {1}, kind : {"M", "I", "N"}]
ScanRunSeqs == UNION {[1..n -> ScanRun] : n \in 1..MaxScanRuns}

\* operation-run strings that are no sequence of <positive integer><letter>
MalformedCigars ==
    { <<>>,                                  \* no token at all
      <<"1", "M", "N">>,                     \* the integer of N is missing
      <<"1", "M", "0", "N">>,                \* a zero-length run
      <<"1", "M", "-", "1", "N">>,           \* a negative length
      <<"1", "X", "1", "N">>,                \* a letter that is no operation
      <<"N", "1", "M">> }                    \* nothing before the N

ScanCigars == {Encode(runs) : runs \in ScanRunSeqs} \cup MalformedCigars

Filler == <<"x">>
RecordLine(pos_field, cigar_string) ==
    <<Filler, Filler, Filler, pos_field, Filler, cigar_string>>

\* records with a numeric position on, inside and around the region bounds
RecordLines ==
    {RecordLine(py_str(p), c) : p \in Region.start..Region.stop, c \in ScanCigars}

\* lines with fewer than six tab-delimited fields
ShortLines == { << <<>> >>, <<Filler, Filler, Filler, <<"p">>, Filler>> }

\* six fields, but the position is no number
BadPosLines ==
    { RecordLine(<<"p">>, <<"1", "M", "1", "N", "1", "M">>),
      RecordLine(<<>>, <<"1", "M", "1", "N", "1", "M">>) }

SamLines == RecordLines \cup ShortLines \cup BadPosLines

\* a line with all its fields and a numeric position
WellFormedLine(split_line) ==
    /\ Len(split_line) >= SAM_CIGAR_COL_INDEX + 1
    /\ py_int_checked(split_line[SAM_POS_COL_INDEX + 1]).exc = NoExc

ScanInit ==
    /\ line = <<>>
    /\ n_read = 0
    /\ splice_junctions = <<>>
    /\ unique_splice_junction = Unbound
    /\ scan_exc = NoExc
    /\ clean_junctions = <<>>
    /\ clean_usj = Unbound
    /\ scan_pc = "fetch"

\* for line in sam_lines: the next line of the output
FetchLine ==
    /\ scan_pc = "fetch"
    /\ n_read < MaxLines
    /\ line' \in SamLines
    /\ n_read' = n_read + 1
    /\ scan_pc' = "body"
    /\ UNCHANGED <<splice_junctions, unique_splice_junction, scan_exc,
                   clean_junctions, clean_usj>>
    /\ UNCHANGED <<ex_vars, main_vars, post_vars>>

\* the locals after the loop body left them as r (and c, for the scan of
\* the well-formed lines)
AfterBody(r, c) ==
    /\ splice_junctions' = r.sj
    /\ unique_splice_junction' = r.usj
    /\ scan_exc' = r.exc
    /\ scan_pc' = IF r.exc = NoExc THEN "fetch" ELSE "raised"
    /\ clean_junctions' = c.sj
    /\ clean_usj' = c.usj

\* one pass through the loop body
ScanLine ==
    /\ scan_pc = "body"
    /\ AfterBody(loop_body(line, Region, splice_junctions,
                           unique_splice_junction),
                 IF WellFormedLine(line)
                 THEN loop_body(line, Region, clean_junctions, clean_usj)
                 ELSE Locals(clean_junctions, clean_usj, NoExc))
    /\ UNCHANGED <<line, n_read>>
    /\ UNCHANGED <<ex_vars, main_vars, post_vars>>

\* the loop is over: return splice_junctions
ScanReturn ==
    /\ scan_pc = "fetch"
    /\ scan_pc' = "returned"
    /\ UNCHANGED <<line, n_read, splice_junctions, unique_splice_junction,
                   scan_exc, clean_junctions, clean_usj>>
    /\ UNCHANGED <<ex_vars, main_vars, post_vars>>

ScanNext == FetchLine \/ ScanLine \/ ScanReturn

\* no scan runs in the other specifications
ScanIdle ==
    /\ line = <<>>
    /\ n_read = 0
    /\ splice_junctions = <<>>
    /\ unique_splice_junction = Unbound
    /\ scan_exc = NoExc
    /\ clean_junctions = <<>>
    /\ clean_usj = Unbound
    /\ scan_pc = "idle"

\* ------------------------------------------------------------------------
\* sorted() on strings: by character code
\* ------------------------------------------------------------------------
CharOrder ==
    <<"\n", ",", ".", "0", "1", "2", "3", "4", "5", "6", "7", "8", "9",
      "A", "B", "C", "D", "E", "F", "G", "H", "I", "J", "K", "L", "M",
      "N", "O", "P", "Q", "R", "S", "T", "U", "V", "W", "X", "Y", "Z",
      "_",
      "a", "b", "c", "d", "e", "f", "g", "h", "i", "j", "k", "l", "m",
      "n", "o", "p", "q", "r", "s", "t", "u", "v", "w", "x", "y", "z">>

Ord(c) == CHOOSE i \in 1..Len(CharOrder) : CharOrder[i] = c

\* a < b on str
str_less(a, b) ==
    \E i \in 1..Len(b) :
        /\ i <= Len(a) + 1
        /\ \A j \in 1..(i - 1) : a[j] = b[j]
        /\ (i = Len(a) + 1 \/ Ord(a[i]) < Ord(b[i]))

\* sorted(S) for a collection S of distinct strings
RECURSIVE sorted_strs(_)
sorted_strs(S) ==
    IF S = {} THEN <<>>
    ELSE LET m == CHOOSE x \in S : \A y \in S \ {x} : str_less(x, y)
         IN  <<m>> \o sorted_strs(S \ {m})

\* sub in s
contains(s, sub) ==
    \E i \in 0..(Len(s) - Len(sub)) : SubSeq(s, i + 1, i + Len(sub)) = sub

\* ------------------------------------------------------------------------
\* summarize_splice_junctions and find_splice_junctions_for_gene
\* ------------------------------------------------------------------------
\* an event key is the list of its comma-separated fields:
\* gene, gene_type, chrom, start, end
event_string(event) ==
    event[1] \o <<",">> \o event[2] \o <<",">> \o event[3] \o <<",">>
    \o py_str(event[4]) \o <<",">> \o py_str(event[5])

\* sorted(global_event_counts.keys())
RECURSIVE sorted_events(_)
sorted_events(S) ==
    IF S = {} THEN <<>>
    ELSE LET m == CHOOSE x \in S :
                      \A y \in S \ {x} :
                          str_less(event_string(x), event_string(y))
         IN  <<m>> \o sorted_events(S \ {m})

\* per_sample_counts.get(s, 0)
dict_get(d, k, default) == IF k \in DOMAIN d THEN d[k] ELSE default

RECURSIVE seq_sum(_)
seq_sum(q) == IF q = <<>> THEN 0 ELSE Head(q) + seq_sum(Tail(q))

\* the cells of one row, in the order of sample_ids
sample_counts_of(per_sample_counts, ids) ==
    [i \in 1..Len(ids) |-> dict_get(per_sample_counts, ids[i], 0)]

\* one entry of the output file (per_sample_counts is not written: it is the
\* dict the cells were read from)
entry(event, per_sample_counts, ids) ==
    [gene        |-> event[1],
     gene_type   |-> event[2],
     chrom       |-> event[3],
     start       |-> event[4],
     end         |-> event[5],
     total_count |-> seq_sum(sample_counts_of(per_sample_counts, ids)),
     num_samples |-> Cardinality(DOMAIN per_sample_counts),
     sample_counts |-> sample_counts_of(per_sample_counts, ids),
     per_sample_counts |-> per_sample_counts]

entries_in_order(ordered_events, global_event_counts, ids) ==
    [i \in 1..Len(ordered_events) |->
        entry(ordered_events[i], global_event_counts[ordered_events[i]], ids)]

\* the rows summarize_splice_junctions writes
summary_rows(global_event_counts, ids) ==
    entries_in_order(sorted_events(DOMAIN global_event_counts),
                     global_event_counts, ids)

FileSuffix ==
    <<"_", "j", "u", "n", "c", "t", "i", "o", "n", "s", ".", "t", "x", "t">>

\* '{}/{}_{}_junctions.txt'.format(output_dir, gene, len(global_event_counts))
\* (the directory is the same for every file and left out)
output_file_name(gene, global_event_counts) ==
    gene \o <<"_">> \o py_str(Cardinality(DOMAIN global_event_counts))
         \o FileSuffix

\* the samples whose table holds the junction
samples_with(results, junction) ==
    {sid \in DOMAIN results : junction \in DOMAIN results[sid]}

\* global_event_counts after the loop over the samples; results maps each
\* sample id to what find_splice_junctions returned for it
gene_event_counts(pa, results) ==
    [event \in { <<pa.t_gene, pa.t_gene_type>> \o junction :
                   junction \in UNION {DOMAIN results[sid] : sid \in DOMAIN results} }
        |-> [sid \in samples_with(results, SubSeq(event, 3, 5))
                |-> results[sid][SubSeq(event, 3, 5)]]]

\* what find_splice_junctions may return for a region on chromosome chrom
ScanTables_WithZero(chrom) ==
    { <<>>,
      (<<chrom, 3, 4>> :> 0),
      (<<chrom, 3, 4>> :> 2) @@ (<<chrom, 10, 12>> :> 1) }

ScanTables(chrom) ==
    { <<>>,
      (<<chrom, 3, 4>> :> 1),
      (<<chrom, 3, 4>> :> 2) @@ (<<chrom, 10, 12>> :> 1) }

\* ------------------------------------------------------------------------
\* map_splice_junction_discovery_across_genes and main
\* ------------------------------------------------------------------------
Samples == {<<"a">>, <<"b">>}

\* the sample dict: its keys in iteration order
SampleOrders ==
    {q \in UNION {[1..n -> Samples] : n \in 1..Cardinality(Samples)} :
        \A i, j \in DOMAIN q : i # j => q[i] # q[j]}

RangeOf(q) == {q[i] : i \in DOMAIN q}

\* the regions of the transcript file: gene, transcript id, stop; gene A has
\* two transcripts
RegionRecords ==
    { <<<<"A">>, <<"t">>, <<"4">>>>,
      <<<<"A">>, <<"u">>, <<"5">>>>,
      <<<<"A", "B">>, <<"t">>, <<"4">>>> }

\* a line of the transcript file, as its tab-delimited fields
HeaderLine ==
    <<<<"G">>, <<"T">>, <<"x">>, <<"C", "H", "R", "O", "M">>, <<"S">>,
      <<"E">>, <<"Y", "\n">>>>
GeneLine(r) ==
    <<r[1], r[2], <<"x">>, <<"2">>, <<"2">>, r[3], <<"p", "c", "\n">>>>
BlankLine == << <<"\n">> >>

TranscriptLines ==
    {HeaderLine, BlankLine} \cup {GeneLine(r) : r \in RegionRecords}

\* the transcript files of up to MaxRegions lines that name no region twice
TranscriptFiles ==
    {f \in UNION {[1..n -> TranscriptLines] : n \in 0..MaxRegions} :
        \A i, j \in DOMAIN f :
            (i # j /\ f[i] = f[j]) => f[i] \in {HeaderLine, BlankLine}}

\* 'CHROM' in t
is_header(t) == \E i \in DOMAIN t : contains(t[i], <<"C", "H", "R", "O", "M">>)

\* the seven names of line 206 take exactly seven fields
unpacks(t) == Len(t) = 7

pool_arg(t) ==
    [t_gene      |-> py_split(t[1], "\n")[1],
     t_gene_type |-> py_split(t[7], "\n")[1],
     t_chrom     |-> t[4],
     t_start     |-> py_int_checked(t[5]).val,
     t_stop      |-> py_int_checked(t[6]).val]

\* the loop of lines 201-216 over the lines from the k-th on
RECURSIVE build_pool_args(_, _, _)
build_pool_args(lines, k, args) ==
    IF k > Len(lines) THEN Return(args)
    ELSE IF is_header(lines[k]) THEN build_pool_args(lines, k + 1, args)
    ELSE IF ~unpacks(lines[k]) THEN Raise("ValueError")
    ELSE IF py_int_checked(lines[k][5]).exc # NoExc
            \/ py_int_checked(lines[k][6]).exc # NoExc
    THEN Raise("ValueError")
    ELSE build_pool_args(lines, k + 1, Append(args, pool_arg(lines[k])))

NoFinal == [written |-> FALSE, header |-> <<>>, rows |-> <<>>]
Queued == [st |-> "queued", name |-> <<>>, rows |-> <<>>]

MainInit ==
    /\ transcript_lines \in TranscriptFiles
    /\ sample_ids \in SampleOrders
    /\ pool_args = <<>>
    /\ tasks = <<>>
    /\ files = <<>>
    /\ final = NoFinal
    /\ main_pc = "args"

ArgsBuilt(r) ==
    /\ pool_args' = r.val
    /\ tasks' = [i \in 1..Len(r.val) |-> Queued]
    /\ main_pc' = IF r.exc = NoExc THEN "map" ELSE "crashed"

\* lines 198-216: the pool arguments, one per line of the transcript file
BuildPoolArgs ==
    /\ main_pc = "args"
    /\ ArgsBuilt(build_pool_args(transcript_lines, 1, <<>>))
    /\ UNCHANGED <<transcript_lines, sample_ids, files, final>>
    /\ UNCHANGED <<ex_vars, scan_vars, post_vars>>

\* open(output_file_name, 'w') by the worker of task i, with the rows it
\* is going to write
Opened(i, name, rows) ==
    /\ files' = (name :> <<>>) @@ files
    /\ tasks' = [tasks EXCEPT ![i] = [st |-> "open", name |-> name,
                                      rows |-> rows]]

\* the worker of task i scans every sample and opens its output file
WorkerStart(i) ==
    /\ main_pc = "map"
    /\ tasks[i].st = "queued"
    /\ \E results \in [RangeOf(sample_ids) -> ScanTables(pool_args[i].t_chrom)] :
          Opened(i,
                 output_file_name(pool_args[i].t_gene,
                                  gene_event_counts(pool_args[i], results)),
                 summary_rows(gene_event_counts(pool_args[i], results),
                              sorted_strs(RangeOf(sample_ids))))
    /\ UNCHANGED <<transcript_lines, sample_ids, pool_args, final, main_pc>>
    /\ UNCHANGED <<ex_vars, scan_vars, post_vars>>

\* find_splice_junctions raises in the worker of task i
WorkerFails(i) ==
    /\ main_pc = "map"
    /\ tasks[i].st = "queued"
    /\ tasks' = [tasks EXCEPT ![i].st = "failed"]
    /\ UNCHANGED <<transcript_lines, sample_ids, pool_args, files, final,
                   main_pc>>
    /\ UNCHANGED <<ex_vars, scan_vars, post_vars>>

\* the rows reach the file when it is closed: written from offset 0 over
\* whatever the file holds by then
WorkerWrite(i) ==
    /\ main_pc = "map"
    /\ tasks[i].st = "open"
    /\ files' = [files EXCEPT ![tasks[i].name] =
                    tasks[i].rows \o SubSeq(@, Len(tasks[i].rows) + 1, Len(@))]
    /\ tasks' = [tasks EXCEPT ![i].st = "done"]
    /\ UNCHANGED <<transcript_lines, sample_ids, pool_args, final, main_pc>>
    /\ UNCHANGED <<ex_vars, scan_vars, post_vars>>

\* pool.map returns, or raises what a worker raised
PoolMapReturns ==
    /\ main_pc = "map"
    /\ \A i \in DOMAIN tasks : tasks[i].st \in {"done", "failed"}
    /\ main_pc' = IF \E i \in DOMAIN tasks : tasks[i].st = "failed"
                  THEN "crashed" ELSE "merge"
    /\ UNCHANGED <<transcript_lines, sample_ids, pool_args, tasks, files,
                   final>>
    /\ UNCHANGED <<ex_vars, scan_vars, post_vars>>

\* cat of the files in the order of names
RECURSIVE cat_files(_, _)
cat_files(names, dir) ==
    IF names = <<>> THEN <<>>
    ELSE dir[Head(names)] \o cat_files(Tail(names), dir)

\* lines 277-289: the header, then every gene file in sorted name order;
\* each file is removed once added
Merge ==
    /\ main_pc = "merge"
    /\ final' = [written |-> TRUE,
                 header  |-> sample_ids,
                 rows    |-> cat_files(sorted_strs(DOMAIN files), files)]
    /\ files' = <<>>
    /\ main_pc' = "done"
    /\ UNCHANGED <<transcript_lines, sample_ids, pool_args, tasks>>
    /\ UNCHANGED <<ex_vars, scan_vars, post_vars>>

MainNext ==
    \/ BuildPoolArgs
    \/ \E i \in DOMAIN tasks : WorkerStart(i)
    \/ \E i \in DOMAIN tasks : WorkerFails(i)
    \/ \E i \in DOMAIN tasks : WorkerWrite(i)
    \/ PoolMapReturns
    \/ Merge

\* main does not run in the other specifications
MainIdle ==
    /\ transcript_lines = <<>>
    /\ sample_ids = <<>>
    /\ pool_args = <<>>
    /\ tasks = <<>>
    /\ files = <<>>
    /\ final = NoFinal
    /\ main_pc = "idle"

\* ------------------------------------------------------------------------
\* combineJunctionAcrossSamples.py: main
\* ------------------------------------------------------------------------
\* '{}:{}-{}'.format(chrom, start, stop)
junction_string(chrom, start, stop) == <<chrom, ":", start, "-", stop>>

\* one row of a *.splicejunctions.reformatted.tsv table; samptimes is the
\* dict json.loads makes of the cell
ReformattedRow(gene, start, stop, sample, count) ==
    [gene |-> gene, gene_type |-> "protein_coding", chrom |-> "2",
     start |-> start, stop |-> stop, ntimes |-> count, nsamp |-> 1,
     samptimes |-> (sample :> count)]

\* the junctions the rows name, each with its gene and its count in a
\* sample: one junction lies in two overlapping genes
AggJunctions == {<<"G1", 3, 4, 1>>, <<"G2", 3, 4, 2>>, <<"G1", 10, 12, 1>>}

RowsOfSample(s) ==
    {ReformattedRow(j[1], j[2], j[3], s, j[4]) : j \in AggJunctions}

\* the tables of up to rows rows reformatted from the discovery output of
\* one sample
TablesUpTo(rows) ==
    UNION {UNION {[1..n -> RowsOfSample(s)] : n \in 0..rows} : s \in Samples}

\* the folders of n tables with up to rows rows in all
RECURSIVE FoldersWithin(_, _)
FoldersWithin(n, rows) ==
    IF n = 0 THEN {<<>>}
    ELSE UNION {{<<t>> \o rest : rest \in FoldersWithin(n - 1, rows - Len(t))} :
                t \in TablesUpTo(rows)}

\* the folders of up to MaxSources tables with up to MaxRows rows in all
Folders == UNION {FoldersWithin(n, MaxRows) : n \in 1..MaxSources}

\* [k for d in samptimes_list for k in d.keys()]
keys_of_table(table) == UNION {DOMAIN table[i].samptimes : i \in DOMAIN table}

\* np.unique(...)[0]: the least key, IndexError when there is none
first_unique(keys) ==
    IF keys = {} THEN Raise("IndexError")
    ELSE Return(CHOOSE k \in keys : \A o \in keys : o = k \/ str_less(k, o))

sample_id_of_table(table) == first_unique(keys_of_table(table))

\* junction_string in all_juncs_dict
juncs_index(d, key) ==
    {i \in DOMAIN d : junction_string(d[i].chrom, d[i].start, d[i].stop) = key}

\* all_juncs_dict[junction_string]['samptimes'][samp_id] += ntimes, or = ntimes
add_samptimes(samptimes, samp_id, ntimes) ==
    IF samp_id \in DOMAIN samptimes
    THEN [samptimes EXCEPT ![samp_id] = @ + ntimes]
    ELSE (samp_id :> ntimes) @@ samptimes

\* the branch of a junction already in the dict
seen_junction(entry_, samp_id, ntimes) ==
    [entry_ EXCEPT !.samptimes = add_samptimes(@, samp_id, ntimes),
                   !.ntimes = @ + ntimes,
                   !.nsamp = @ + 1]

\* the branch of a junction not yet in the dict
new_junction(junction, samp_id, ntimes) ==
    [gene |-> junction.gene, gene_type |-> junction.gene_type,
     chrom |-> junction.chrom, start |-> junction.start,
     stop |-> junction.stop, ntimes |-> ntimes, nsamp |-> 1,
     samptimes |-> (samp_id :> ntimes)]

store_junction(d, junction, at, samp_id) ==
    IF at = {}
    THEN Append(d, new_junction(junction, samp_id, junction.samptimes[samp_id]))
    ELSE [d EXCEPT ![CHOOSE i \in at : TRUE] =
              seen_junction(@, samp_id, junction.samptimes[samp_id])]

\* the body of the loop over splice_junctions; the one-pair unpacking of
\* samptimes.items() raises ValueError unless the dict has exactly one item
add_junction(d, junction) ==
    IF Cardinality(DOMAIN junction.samptimes) # 1
    THEN Raise("ValueError")
    ELSE Return(store_junction(d, junction,
                    juncs_index(d, junction_string(junction.chrom,
                                                   junction.start,
                                                   junction.stop)),
                    CHOOSE s \in DOMAIN junction.samptimes : TRUE))

\* np.count_nonzero(np.asarray(list(temp_dict['samptimes'].values())))
count_nonzero_OneMorePerRow(entry_) == entry_.nsamp

count_nonzero(entry_) ==
    Cardinality({s \in DOMAIN entry_.samptimes : entry_.samptimes[s] # 0})

\* the loop over junc_values: nsamp is recomputed, samptimes dumped as json
new_junc_values(d) ==
    [i \in DOMAIN d |-> [d[i] EXCEPT !.nsamp = count_nonzero(d[i])]]

\* the output file: not written yet, or written with these rows
NoOutput == [written |-> FALSE, rows |-> <<>>]
Written(rows) == [written |-> TRUE, rows |-> rows]

AggInit ==
    /\ input_junction_folder \in Folders
    /\ agg_sample_ids = <<>>
    /\ agg_f = 1
    /\ agg_r = 1
    /\ all_juncs_dict = <<>>
    /\ output_df = NoOutput
    /\ first_output = NoOutput
    /\ agg_exc = "none"
    /\ agg_pc = "ids"

IdRead(r) ==
    IF r.exc # "none"
    THEN /\ agg_exc' = r.exc
         /\ agg_pc' = "raised"
         /\ UNCHANGED <<agg_sample_ids, agg_f>>
    ELSE /\ agg_sample_ids' = Append(agg_sample_ids, r.val)
         /\ agg_f' = IF agg_f < Len(input_junction_folder) THEN agg_f + 1 ELSE 1
         /\ agg_pc' = IF agg_f < Len(input_junction_folder) THEN "ids" ELSE "rows"
         /\ UNCHANGED agg_exc

\* one pass of the first loop: the sample id of one table
ReadSampleId ==
    /\ agg_pc = "ids"
    /\ IdRead(sample_id_of_table(input_junction_folder[agg_f]))
    /\ UNCHANGED <<input_junction_folder, agg_r, all_juncs_dict, output_df,
                   first_output>>
    /\ UNCHANGED <<ex_vars, scan_vars, main_vars, norm_vars, reformat_vars>>

JunctionAdded(r) ==
    IF r.exc # "none"
    THEN /\ agg_exc' = r.exc
         /\ agg_pc' = "raised"
         /\ UNCHANGED <<all_juncs_dict, agg_f, agg_r>>
    ELSE /\ all_juncs_dict' = r.val
         /\ IF agg_r < Len(input_junction_folder[agg_f])
            THEN /\ agg_r' = agg_r + 1
                 /\ UNCHANGED <<agg_f, agg_pc>>
            ELSE /\ agg_r' = 1
                 /\ agg_f' = IF agg_f < Len(input_junction_folder) THEN agg_f + 1 ELSE 1
                 /\ agg_pc' = IF agg_f < Len(input_junction_folder) THEN "rows" ELSE "finish"
         /\ UNCHANGED agg_exc

\* one pass of the inner loop of the second loop: one row of one table (a
\* table without rows never gets here: the first loop raised on it)
AddJunction ==
    /\ agg_pc = "rows"
    /\ JunctionAdded(add_junction(all_juncs_dict,
                                  input_junction_folder[agg_f][agg_r]))
    /\ UNCHANGED <<input_junction_folder, agg_sample_ids, output_df,
                   first_output>>
    /\ UNCHANGED <<ex_vars, scan_vars, main_vars, norm_vars, reformat_vars>>

\* the tail of main: nsamp recomputed, the table written
WriteOutput ==
    /\ agg_pc = "finish"
    /\ output_df' = Written(new_junc_values(all_juncs_dict))
    /\ agg_pc' = "done"
    /\ UNCHANGED <<input_junction_folder, agg_sample_ids, agg_f, agg_r,
                   all_juncs_dict, first_output, agg_exc>>
    /\ UNCHANGED <<ex_vars, scan_vars, main_vars, norm_vars, reformat_vars>>

\* the folders a second run can find the written table in: alone, or next to
\* a table without rows, in either glob order
FeedBackFolders(table) == {<<table>>, <<table, <<>>>>, <<<<>>, table>>}

\* main run again over its own output
FeedBack ==
    /\ agg_pc = "done"
    /\ first_output = NoOutput
    /\ first_output' = output_df
    /\ input_junction_folder' \in FeedBackFolders(output_df.rows)
    /\ agg_sample_ids' = <<>>
    /\ agg_f' = 1
    /\ agg_r' = 1
    /\ all_juncs_dict' = <<>>
    /\ output_df' = NoOutput
    /\ agg_pc' = "ids"
    /\ UNCHANGED agg_exc
    /\ UNCHANGED <<ex_vars, scan_vars, main_vars, norm_vars, reformat_vars>>

AggNext ==
    \/ ReadSampleId
    \/ AddJunction
    \/ WriteOutput
    \/ FeedBack

\* the aggregator does not run in the other specifications
AggIdle ==
    /\ input_junction_folder = <<>>
    /\ agg_sample_ids = <<>>
    /\ agg_f = 0
    /\ agg_r = 0
    /\ all_juncs_dict = <<>>
    /\ output_df = NoOutput
    /\ first_output = NoOutput
    /\ agg_exc = "none"
    /\ agg_pc = "idle"

\* ------------------------------------------------------------------------
\* SpliceJunctionNormalization.py
\* ------------------------------------------------------------------------
\* s.strip(chars): leading and trailing characters of the set chars removed
RECURSIVE py_lstrip(_, _)
py_lstrip(s, chars) ==
    IF s # <<>> /\ Head(s) \in chars THEN py_lstrip(Tail(s), chars) ELSE s

RECURSIVE py_rstrip(_, _)
py_rstrip(s, chars) ==
    IF s # <<>> /\ s[Len(s)] \in chars
    THEN py_rstrip(SubSeq(s, 1, Len(s) - 1), chars) ELSE s

py_strip(s, chars) == py_rstrip(py_lstrip(s, chars), chars)

\* sep.join(pieces)
RECURSIVE py_join(_, _)
py_join(pieces, sep) ==
    IF pieces = <<>> THEN <<>>
    ELSE IF Len(pieces) = 1 THEN pieces[1]
    ELSE pieces[1] \o <<sep>> \o py_join(Tail(pieces), sep)

\* int(s): ValueError unless s is a non-empty string of digits
is_number(s) == s # <<>> /\ \A i \in DOMAIN s : s[i] \in Digits

\* the pairs of a counts string that do not unpack into sample, count
bad_pairs(pieces) ==
    {i \in DOMAIN pieces :
        \/ Len(py_split(pieces[i], ":")) # 2
        \/ ~is_number(py_split(pieces[i], ":")[2])}

\* individual_pairs[sample] = int(count), pair after pair
RECURSIVE individual_pairs(_)
individual_pairs(pieces) ==
    IF pieces = <<>> THEN <<>>
    ELSE (py_split(pieces[Len(pieces)], ":")[1]
              :> py_int(py_split(pieces[Len(pieces)], ":")[2]))
         @@ individual_pairs(SubSeq(pieces, 1, Len(pieces) - 1))

dictify_pieces(pieces) ==
    IF bad_pairs(pieces) # {} THEN Raise("ValueError")
    ELSE Return(individual_pairs(pieces))

dictify_sample_counts_string(all_sample_counts_string) ==
    dictify_pieces(py_split(all_sample_counts_string, ","))

\* key=lambda x: x.split(':')[1]
pair_key(x) == py_split(x, ":")[2]

\* sorted(individual_pairs, key=...): stable, keys compared as strings
RECURSIVE insert_by_key(_, _)
insert_by_key(ordered, x) ==
    IF ordered = <<>> THEN <<x>>
    ELSE IF str_less(pair_key(x), pair_key(Head(ordered)))
         THEN <<x>> \o ordered
         ELSE <<Head(ordered)>> \o insert_by_key(Tail(ordered), x)

RECURSIVE ordered_pairs(_)
ordered_pairs(pairs) ==
    IF pairs = <<>> THEN <<>>
    ELSE insert_by_key(ordered_pairs(SubSeq(pairs, 1, Len(pairs) - 1)),
                       pairs[Len(pairs)])

sort_pieces(pieces) ==
    IF \E i \in DOMAIN pieces : Len(py_split(pieces[i], ":")) < 2
    THEN Raise("IndexError")
    ELSE Return(py_join(ordered_pairs(pieces), ","))

sort_string_numerically(all_sample_counts_string) ==
    sort_pieces(py_split(all_sample_counts_string, ","))

\* "{}:{}".format(chrom, pos)
position_string(chrom, pos) == <<chrom, ":", pos>>

\* the five keys make_annotated_junction_set adds for one entry
keys_of_junction(chrom, start, stop) ==
    {junction_string(chrom, start + offset, stop + offset) : offset \in -1..1}
    \cup {junction_string(chrom, start - 1, stop + 1),
          junction_string(chrom, start + 1, stop - 1)}

\* fields[chrom_col].strip("chr")
strip_chr(name) == py_strip(name, {"c", "h", "r"})

keys_of_entry(fields) ==
    keys_of_junction(strip_chr(fields.chrom), fields.start, fields.stop)

\* annotated_counts.get(pos): None, or the dict found
None == [found |-> FALSE, d |-> <<>>]
Found(d) == [found |-> TRUE, d |-> d]
counts_get(counts, pos) ==
    IF pos \in DOMAIN counts THEN Found(counts[pos]) ELSE None

\* the truth value of what annotated_counts.get returned
truthy(got) == got.found /\ DOMAIN got.d # {}

\* the if / elif of the innermost loop of get_annotated_counts
larger_count_LastSeen(existing, count) == count

larger_count(existing, count) ==
    IF existing = 0 THEN count
    ELSE IF count > existing THEN count
    ELSE existing

\* annotated_counts[pos] after the loop over the samples of one junction;
\* annotated_counts[pos].get(sample) is None for a sample not seen there
counts_at_pos(old, d) ==
    [s \in DOMAIN old \cup DOMAIN d |->
        IF s \notin DOMAIN d THEN old[s]
        ELSE IF s \notin DOMAIN old THEN d[s]
        ELSE larger_count(old[s], d[s])]

\* annotated_counts is a defaultdict: annotated_counts[pos] of a new pos is
\* an empty dict
note_pos(counts, pos, d) ==
    (pos :> counts_at_pos(counts_get(counts, pos).d, d)) @@ counts

\* for pos in [start, stop]
note_start_stop(counts, junction, d) ==
    note_pos(note_pos(counts, position_string(junction.chrom, junction.start), d),
             position_string(junction.chrom, junction.stop), d)

note_junction(counts, junction, r) ==
    IF r.exc # "none" THEN r
    ELSE Return(note_start_stop(counts, junction, r.val))

\* the body of the loop of get_annotated_counts
get_annotated_counts_body(counts, junction, annotated_junctions) ==
    IF junction_string(junction.chrom, junction.start, junction.stop)
           \in annotated_junctions
    THEN note_junction(counts, junction,
                       dictify_sample_counts_string(junction.samptimes))
    ELSE Return(counts)

\* round(float(count)/denominator, 3), in thousandths
round_3(count, denominator) ==
    (2000 * count + denominator) \div (2 * denominator)

\* the digits after the point of the shortest repr of a multiple of 0.001
fraction_digits(t) ==
    IF t % 10 # 0
    THEN <<DigitChar[(t \div 100) + 1], DigitChar[((t \div 10) % 10) + 1],
           DigitChar[(t % 10) + 1]>>
    ELSE IF t % 100 # 0
    THEN <<DigitChar[(t \div 100) + 1], DigitChar[((t \div 10) % 10) + 1]>>
    ELSE <<DigitChar[(t \div 100) + 1]>>

\* '{}'.format of a float that is a multiple of 0.001
format_float(t) == py_str(t \div 1000) \o <<".">> \o fraction_digits(t % 1000)

\* the try / except ZeroDivisionError of normalize_counts
normalized(count, denominator) ==
    IF denominator = 0 THEN py_str(count) \o <<"*">>
    ELSE format_float(round_3(count, denominator))

\* max(annotated_start.get(sample, 0), annotated_stop.get(sample, 0))
max_of(a, b) == IF a > b THEN a ELSE b

denominator_both(annotated_start, annotated_stop, sample) ==
    max_of(dict_get(annotated_start.d, sample, 0),
           dict_get(annotated_stop.d, sample, 0))

\* annotated_start.get(sample, 0) if annotated_start else annotated_stop.get(sample, 0)
denominator_one(annotated_start, annotated_stop, sample) ==
    IF truthy(annotated_start) THEN dict_get(annotated_start.d, sample, 0)
    ELSE dict_get(annotated_stop.d, sample, 0)

\* if annotated_start and annotated_stop
both_annotated_Either(annotated_start, annotated_stop) ==
    truthy(annotated_start) \/ truthy(annotated_stop)

both_annotated(annotated_start, annotated_stop) ==
    truthy(annotated_start) /\ truthy(annotated_stop)

denominator_of(annotated_start, annotated_stop, sample) ==
    IF both_annotated(annotated_start, annotated_stop)
    THEN denominator_both(annotated_start, annotated_stop, sample)
    ELSE denominator_one(annotated_start, annotated_stop, sample)

\* normalized_col += "{}:{}".format(sample, normalized), over the items of
\* the dict in the order the dict iterates them
RECURSIVE normalized_col(_, _, _, _)
normalized_col(items, d, annotated_start, annotated_stop) ==
    IF items = <<>> THEN <<>>
    ELSE items[1] \o <<":">>
         \o normalized(d[items[1]],
                       denominator_of(annotated_start, annotated_stop, items[1]))
         \o normalized_col(Tail(items), d, annotated_start, annotated_stop)

line_to_print(junction, samptimes_sorted, tag, last_col) ==
    [gene |-> junction.gene, gene_type |-> junction.gene_type,
     full_junction_string |->
         junction_string(junction.chrom, junction.start, junction.stop),
     ntimes |-> junction.ntimes, nsamp |-> junction.nsamp,
     samptimes_sorted |-> samptimes_sorted, tag |-> tag,
     normalized_col_sorted |-> last_col]

NothingPrinted == [nothing |-> TRUE]

annotated_line(junction, samptimes_sorted, tag, col_sorted) ==
    IF col_sorted.exc # "none" THEN col_sorted
    ELSE Return(line_to_print(junction, samptimes_sorted, tag, col_sorted.val))

\* the branch of a junction with an annotated end
annotated_branch(junction, samptimes_sorted, annotated_start, annotated_stop, d, items) ==
    annotated_line(junction, samptimes_sorted,
        IF both_annotated(annotated_start, annotated_stop)
        THEN "Both annotated" ELSE "One annotated",
        sort_string_numerically(
            normalized_col(items, d, annotated_start, annotated_stop)))

\* the if / elif on the two lookups; the elif tests annotated_stop twice
classify(junction, samptimes_sorted, annotated_start, annotated_stop, r, items) ==
    IF truthy(annotated_start) \/ truthy(annotated_stop)
    THEN IF r.exc # "none" THEN r
         ELSE annotated_branch(junction, samptimes_sorted, annotated_start,
                               annotated_stop, r.val, items)
    ELSE IF ~annotated_stop.found /\ ~annotated_stop.found
    THEN Return(line_to_print(junction, samptimes_sorted,
                              "Neither annotated", <<"-">>))
    ELSE Return(NothingPrinted)

after_sort(junction, sorted_, counts, items) ==
    IF sorted_.exc # "none" THEN sorted_
    ELSE classify(junction, sorted_.val,
             counts_get(counts, position_string(junction.chrom, junction.start)),
             counts_get(counts, position_string(junction.chrom, junction.stop)),
             dictify_sample_counts_string(junction.samptimes), items)

\* the body of the loop of normalize_counts; items is the order in which the
\* dict of the junction's counts iterates its samples
normalize_counts_body(junction, counts, items) ==
    after_sort(junction, sort_string_numerically(junction.samptimes),
               counts, items)

\* the reference models: entries on chromosome 2 named with and without the
\* chr prefix, and on the decoy contig hs37d5
ModelChroms ==
    {<<"c", "h", "r", "2">>, <<"2">>, <<"h", "s", "3", "7", "d", "5">>}
ModelIntervals == {<<3, 4>>, <<4, 10>>}
ModelEntry(chrom, interval) ==
    [chrom |-> chrom, start |-> interval[1], stop |-> interval[2]]
ModelEntries(chroms) ==
    {ModelEntry(c, i) : c \in chroms, i \in ModelIntervals}
TranscriptModels(chroms) ==
    UNION {[1..n -> ModelEntries(chroms)] : n \in 0..MaxEntries}

\* the junction dicts get_junctions hands on
a_count(c) == <<"a", ":">> \o py_str(c)
b_count(c) == <<"b", ":">> \o py_str(c)
SampleCountStrings ==
    {a_count(5),
     a_count(5) \o <<",">> \o b_count(0),
     a_count(10) \o <<",">> \o b_count(8)}
JunctionIntervals == {<<3, 4>>, <<3, 10>>, <<4, 5>>}
JunctionDict(interval, samptimes) ==
    [gene |-> "G1", gene_type |-> "protein_coding", chrom |-> <<"2">>,
     start |-> interval[1], stop |-> interval[2],
     ntimes |-> "-", nsamp |-> "-", samptimes |-> samptimes]
JunctionDicts ==
    {JunctionDict(i, s) : i \in JunctionIntervals, s \in SampleCountStrings}
JunctionLists == UNION {[1..n -> JunctionDicts] : n \in 1..MaxJunctions}

\* the orders a dict can iterate the given keys in
ItemOrders(keys) ==
    {q \in UNION {[1..n -> keys] : n \in {Cardinality(keys)}} :
        \A i, j \in DOMAIN q : i # j => q[i] # q[j]}

NormInit(chroms) ==
    /\ transcript_model \in TranscriptModels(chroms)
    /\ annotated_junction_set = {}
    /\ norm_junctions = <<>>
    /\ annotated_counts = <<>>
    /\ norm_i = 1
    /\ printed = <<>>
    /\ norm_exc = "none"
    /\ norm_pc = "set"

\* one pass of the loop of make_annotated_junction_set
AddEntry ==
    /\ norm_pc = "set"
    /\ norm_i <= Len(transcript_model)
    /\ annotated_junction_set' =
           annotated_junction_set \cup keys_of_entry(transcript_model[norm_i])
    /\ norm_i' = norm_i + 1
    /\ UNCHANGED <<transcript_model, norm_junctions, annotated_counts, printed,
                   norm_exc, norm_pc>>
    /\ UNCHANGED <<ex_vars, scan_vars, main_vars, agg_vars, reformat_vars>>

\* make_annotated_junction_set returns
SetReturn ==
    /\ norm_pc = "set"
    /\ norm_i > Len(transcript_model)
    /\ norm_pc' = "built"
    /\ UNCHANGED <<transcript_model, annotated_junction_set, norm_junctions,
                   annotated_counts, norm_i, printed, norm_exc>>
    /\ UNCHANGED <<ex_vars, scan_vars, main_vars, agg_vars, reformat_vars>>

\* main with --normalize: get_junctions reads the splice file
GetJunctions ==
    /\ norm_pc = "built"
    /\ norm_junctions' \in JunctionLists
    /\ norm_i' = 1
    /\ norm_pc' = "index"
    /\ UNCHANGED <<transcript_model, annotated_junction_set, annotated_counts,
                   printed, norm_exc>>
    /\ UNCHANGED <<ex_vars, scan_vars, main_vars, agg_vars, reformat_vars>>

Noted(r) ==
    IF r.exc # "none"
    THEN /\ norm_exc' = r.exc
         /\ norm_pc' = "raised"
         /\ UNCHANGED <<annotated_counts, norm_i>>
    ELSE /\ annotated_counts' = r.val
         /\ norm_i' = IF norm_i < Len(norm_junctions) THEN norm_i + 1 ELSE 1
         /\ norm_pc' = IF norm_i < Len(norm_junctions) THEN "index" ELSE "normalize"
         /\ UNCHANGED norm_exc

\* one pass of the loop of get_annotated_counts
NoteJunction ==
    /\ norm_pc = "index"
    /\ Noted(get_annotated_counts_body(annotated_counts, norm_junctions[norm_i],
                                       annotated_junction_set))
    /\ UNCHANGED <<transcript_model, annotated_junction_set, norm_junctions,
                   printed>>
    /\ UNCHANGED <<ex_vars, scan_vars, main_vars, agg_vars, reformat_vars>>

Normalized(r) ==
    IF r.exc # "none"
    THEN /\ norm_exc' = r.exc
         /\ norm_pc' = "raised"
         /\ UNCHANGED <<printed, norm_i>>
    ELSE /\ printed' = IF r.val = NothingPrinted THEN printed
                       ELSE Append(printed, r.val)
         /\ norm_i' = norm_i + 1
         /\ norm_pc' = IF norm_i < Len(norm_junctions) THEN "normalize" ELSE "done"
         /\ UNCHANGED norm_exc

sample_keys(r) == IF r.exc # "none" THEN {} ELSE DOMAIN r.val

\* one pass of the loop of normalize_counts
NormalizeJunction ==
    /\ norm_pc = "normalize"
    /\ \E items \in ItemOrders(sample_keys(
               dictify_sample_counts_string(norm_junctions[norm_i].samptimes))) :
           Normalized(normalize_counts_body(norm_junctions[norm_i],
                                            annotated_counts, items))
    /\ UNCHANGED <<transcript_model, annotated_junction_set, norm_junctions,
                   annotated_counts>>
    /\ UNCHANGED <<ex_vars, scan_vars, main_vars, agg_vars, reformat_vars>>

\* main with --getunannotated: only the annotated junction set is built
AnnotNext ==
    \/ AddEntry
    \/ SetReturn

\* main with --normalize
NormNext ==
    \/ AddEntry
    \/ SetReturn
    \/ GetJunctions
    \/ NoteJunction
    \/ NormalizeJunction

\* the normalizer does not run in the other specifications
NormIdle ==
    /\ transcript_model = <<>>
    /\ annotated_junction_set = {}
    /\ norm_junctions = <<>>
    /\ annotated_counts = <<>>
    /\ norm_i = 0
    /\ printed = <<>>
    /\ norm_exc = "none"
    /\ norm_pc = "idle"

\* ------------------------------------------------------------------------
\* spliceJunctionReformat.py: junctions_from_file
\* ------------------------------------------------------------------------
\* a line is the list of its tab-delimited fields, the line feed in the last
Whitespace == {" ", "\t", "\n"}

\* the header main of SpliceJunctionDiscovery.py writes for one sample
DiscoveryHeader(sample) ==
    <<<<"G", "e", "n", "e">>, <<"T", "y", "p", "e">>,
      <<"C", "h", "r", "o", "m">>, <<"S", "t", "a", "r", "t">>,
      <<"E", "n", "d">>,
      <<"N", "T", "i", "m", "e", "s", "S", "e", "e", "n">>,
      <<"N", "S", "a", "m", "p", "l", "e", "s", "S", "e", "e", "n">>,
      sample \o <<"\n">>>>

\* a junction row of the output for one sample
DiscoveryRow(gene, interval, count) ==
    <<gene, <<"p", "c">>, <<"2">>, py_str(interval[1]), py_str(interval[2]),
      py_str(count), <<"1">>, py_str(count) \o <<"\n">>>>

DiscoveryGenes == {<<"G", "1">>, <<"G", "2">>}
DiscoveryIntervals == {<<3, 4>>, <<10, 12>>}
DiscoveryCounts == {1, 2, 13}

DiscoveryRows ==
    {DiscoveryRow(g, i, c) :
        g \in DiscoveryGenes, i \in DiscoveryIntervals, c \in DiscoveryCounts}

\* the discovery outputs of one sample: the header, then the junction rows
SingleSampleOutputs ==
    {<<DiscoveryHeader(<<"a">>)>> \o rows :
        rows \in UNION {[1..n -> DiscoveryRows] : n \in 0..MaxDataRows}}

\* [k for k in f.readline().split("\t")[7:]][0].rstrip()
first_sample_of(header_fields) ==
    IF Len(header_fields) < 8 THEN Raise("IndexError")
    ELSE Return(py_rstrip(header_fields[8], Whitespace))

\* f.readline() on a file
readline(lines) == IF lines = <<>> THEN << <<>> >> ELSE lines[1]

\* f.readlines()[1:] once the first line has been read with readline
readlines_from_1(lines) == SubSeq(lines, 3, Len(lines))

\* the fields of l.strip().split("\t"): the line feed of the last one gone
strip_line(l) ==
    [i \in DOMAIN l |->
        IF i = Len(l) THEN py_rstrip(l[i], Whitespace) ELSE l[i]]

\* [int(c.strip()) for c in l.split("\t")[7:]]
sample_counts_of_line(l) ==
    [k \in 1..(Len(l) - 7) |-> py_int(py_strip(l[k + 7], Whitespace))]

\* {sample_id: v for v in sample_counts}
samptimes_of(sample, counts) ==
    IF counts = <<>> THEN <<>> ELSE (sample :> counts[Len(counts)])

reformatted(fields, sample, counts) ==
    [gene |-> fields[1], gene_type |-> fields[2], chrom |-> fields[3],
     start |-> fields[4], stop |-> fields[5], ntimes |-> fields[6],
     nsamp |-> fields[7], samptimes |-> samptimes_of(sample, counts)]

\* the body of the loop over file_lines; the seven-name unpacking raises
\* ValueError on a line with fewer than seven fields
junction_of_line(l, sample) ==
    IF Len(l) < 7 THEN Raise("ValueError")
    ELSE Return(reformatted(strip_line(l), sample, sample_counts_of_line(l)))

ReformatInit ==
    /\ splice_file \in SingleSampleOutputs
    /\ sample_id = <<>>
    /\ file_lines = <<>>
    /\ reformat_l = 1
    /\ junctions = <<>>
    /\ reformat_exc = "none"
    /\ reformat_pc = "open"

HeaderRead(r, lines) ==
    IF r.exc # "none"
    THEN /\ reformat_exc' = r.exc
         /\ reformat_pc' = "raised"
         /\ UNCHANGED <<sample_id, file_lines>>
    ELSE /\ sample_id' = r.val
         /\ file_lines' = lines
         /\ reformat_pc' = IF lines = <<>> THEN "done" ELSE "rows"
         /\ UNCHANGED reformat_exc

\* the two reads at the top of the with block
ReadHeader ==
    /\ reformat_pc = "open"
    /\ HeaderRead(first_sample_of(readline(splice_file)),
                  readlines_from_1(splice_file))
    /\ UNCHANGED <<splice_file, reformat_l, junctions>>
    /\ UNCHANGED <<ex_vars, scan_vars, main_vars, agg_vars, norm_vars>>

LineReformatted(r) ==
    IF r.exc # "none"
    THEN /\ reformat_exc' = r.exc
         /\ reformat_pc' = "raised"
         /\ UNCHANGED <<junctions, reformat_l>>
    ELSE /\ junctions' = Append(junctions, r.val)
         /\ reformat_l' = reformat_l + 1
         /\ reformat_pc' = IF reformat_l < Len(file_lines) THEN "rows" ELSE "done"
         /\ UNCHANGED reformat_exc

\* one pass of the loop over file_lines
AppendJunction ==
    /\ reformat_pc = "rows"
    /\ LineReformatted(junction_of_line(file_lines[reformat_l], sample_id))
    /\ UNCHANGED <<splice_file, sample_id, file_lines>>
    /\ UNCHANGED <<ex_vars, scan_vars, main_vars, agg_vars, norm_vars>>

ReformatNext ==
    \/ ReadHeader
    \/ AppendJunction

\* the reformatter does not run in the other specifications
ReformatIdle ==
    /\ splice_file = <<>>
    /\ sample_id = <<>>
    /\ file_lines = <<>>
    /\ reformat_l = 0
    /\ junctions = <<>>
    /\ reformat_exc = "none"
    /\ reformat_pc = "idle"

\* none of the three follow-on scripts is running
PostIdle == AggIdle /\ NormIdle /\ ReformatIdle

\* ------------------------------------------------------------------------
\* Specifications
\* ------------------------------------------------------------------------
\* the walker on one record
InitExtract == ExtractInit /\ ScanIdle /\ MainIdle /\ PostIdle
SpecExtract == InitExtract /\ [][ExtractNext]_vars

\* the scan of one region of one sample
Init == ExtractIdle /\ ScanInit /\ MainIdle /\ PostIdle
Next == ScanNext
Spec == Init /\ [][Next]_vars

\* the fan-out over the genes and the merge
InitMain == ExtractIdle /\ ScanIdle /\ MainInit /\ PostIdle
SpecMain == InitMain /\ [][MainNext]_vars

\* the re-aggregation of the tables of one folder
InitAgg ==
    /\ ExtractIdle /\ ScanIdle /\ MainIdle
    /\ AggInit /\ NormIdle /\ ReformatIdle
SpecAgg == InitAgg /\ [][AggNext]_vars

\* the annotated junction set of a reference model
InitAnnot ==
    /\ ExtractIdle /\ ScanIdle /\ MainIdle
    /\ AggIdle /\ NormInit(ModelChroms) /\ ReformatIdle
SpecAnnot == InitAnnot /\ [][AnnotNext]_vars

\* the normalization of the junctions of one splice file
InitNorm ==
    /\ ExtractIdle /\ ScanIdle /\ MainIdle
    /\ AggIdle /\ NormInit({<<"c", "h", "r", "2">>}) /\ ReformatIdle
SpecNorm == InitNorm /\ [][NormNext]_vars

\* the reformatting of one discovery output
InitReformat ==
    /\ ExtractIdle /\ ScanIdle /\ MainIdle
    /\ AggIdle /\ NormIdle /\ ReformatInit
SpecReformat == InitReformat /\ [][ReformatNext]_vars

\* ------------------------------------------------------------------------
\* What the operation runs of a record say, read off the run sequence
\* ------------------------------------------------------------------------
SkipRuns(runs) == {i \in DOMAIN runs : runs[i].kind = "N"}

NthSkip(runs, n) ==
    CHOOSE i \in SkipRuns(runs) :
        Cardinality({j \in SkipRuns(runs) : j < i}) = n - 1

RECURSIVE RefConsumed(_, _, _)
RefConsumed(runs, lo, hi) ==
    IF lo > hi THEN 0
    ELSE (IF runs[hi].kind \in {"M", "D"} THEN runs[hi].length ELSE 0)
         + RefConsumed(runs, lo, hi - 1)

\* ------------------------------------------------------------------------
\* Claims
\* ------------------------------------------------------------------------

\* C1: for a record with at least one N run, get_first_splice_junction
\* returns (chrom, pos+off, pos+off+len): off is the sum of the lengths of
\* the M and D runs before the first N run, len the length of that N run.
C1_FirstJunction ==
    (ex_pc # "start" /\ SkipRuns(ex_runs) # {}) =>
        LET n   == NthSkip(ex_runs, 1)
            off == RefConsumed(ex_runs, 1, n - 1)
        IN  ex_first = Return(<<ex_chrom, ex_pos + off,
                                ex_pos + off + ex_runs[n].length>>)

C1_Witness ==
    /\ ex_pc = "first"
    /\ ex_runs = <<Mk(3, "M"), Mk(1, "D"), Mk(40, "M"), Mk(20, "N")>>
    /\ ex_pos = 5
    /\ ex_first = Return(<<ex_chrom, 49, 69>>)

\* C2: for a record with exactly two N runs, the second junction starts at
\* the end of the first junction plus the lengths of the M and D runs
\* strictly between the two N runs, and ends that start plus the length of
\* the second N run.
C2_SecondJunction ==
    (ex_pc = "second" /\ Cardinality(SkipRuns(ex_runs)) = 2) =>
        LET n1    == NthSkip(ex_runs, 1)
            n2    == NthSkip(ex_runs, 2)
            start == ex_first.val[3] + RefConsumed(ex_runs, n1 + 1, n2 - 1)
        IN  /\ ex_first.exc = NoExc
            /\ ex_second = Return(<<ex_chrom, start,
                                    start + ex_runs[n2].length>>)

C2_Witness ==
    /\ ex_pc = "second"
    /\ ex_runs = <<Mk(13, "M"), Mk(221400, "N"), Mk(34, "M"), Mk(2658, "N"),
                   Mk(29, "M")>>
    /\ ex_pos = 5
    /\ ex_first = Return(<<ex_chrom, 18, 221418>>)
    /\ ex_second = Return(<<ex_chrom, 221452, 224110>>)

\* the record the loop body is about to run on, or has just run on
LinePos == py_int_checked(line[SAM_POS_COL_INDEX + 1]).val
LineCigar == line[SAM_CIGAR_COL_INDEX + 1]
StrictlyInside(pos) == Region.start < pos /\ pos < Region.stop

\* section 4.1 of the design: a non-empty sequence of tokens, each a positive
\* decimal integer followed by one of the seven operation letters
RECURSIVE well_formed_tokens(_)
well_formed_tokens(s) ==
    IF s = <<>> THEN TRUE
    ELSE /\ s[1] \in Digits
         /\ LET n == CHOOSE k \in 1..Len(s) :
                        /\ \A j \in 1..k : s[j] \in Digits
                        /\ (k = Len(s) \/ s[k + 1] \notin Digits)
            IN  /\ py_int(SubSeq(s, 1, n)) > 0
                /\ Len(s) > n
                /\ s[n + 1] \in RunKinds
                /\ well_formed_tokens(SubSeq(s, n + 2, Len(s)))

WellFormedCigar(c) == c # <<>> /\ well_formed_tokens(c)

\* the body is about to run on a record inside the region with more than
\* two N runs
ManySkipsInside ==
    /\ scan_pc = "body"
    /\ WellFormedLine(line)
    /\ WellFormedCigar(LineCigar)
    /\ StrictlyInside(LinePos)
    /\ py_count(LineCigar, "N") > 2

\* C3 as claimed: a record inside the region with more than two N runs
\* increments the counter of its first junction and of no other junction.
C3_Claimed ==
    [][ManySkipsInside =>
          splice_junctions' =
              Incr(splice_junctions,
                   get_first_splice_junction(LineCigar, Region.chrom,
                                             LinePos).val)]_vars

\* C3 as amended: a record inside the region with more than two N runs
\* leaves the count table as it was: no junction of it is counted.
C3_ManySkipsIgnored ==
    [][ManySkipsInside => splice_junctions' = splice_junctions]_vars

C3_Witness ==
    /\ scan_pc = "fetch"
    /\ n_read = 2
    /\ WellFormedLine(line)
    /\ WellFormedCigar(LineCigar)
    /\ StrictlyInside(LinePos)
    /\ py_count(LineCigar, "N") > 2
    /\ DOMAIN splice_junctions # {}

\* C4: a record changes the count table only if region_start < position <
\* region_stop (both strict) and its operation-run string holds an N.
C4_OnlySkipsInsideCount ==
    [][splice_junctions' # splice_junctions =>
          /\ scan_pc = "body"
          /\ WellFormedLine(line)
          /\ StrictlyInside(LinePos)
          /\ py_count(LineCigar, "N") > 0]_vars

\* a record with an N run on the stop bound has been scanned after a
\* counted one, and the table holds the counted one alone
C4_Witness ==
    /\ scan_pc = "fetch"
    /\ n_read = 2
    /\ line = RecordLine(py_str(Region.stop), <<"1", "M", "1", "N">>)
    /\ splice_junctions = (<<Region.chrom, Region.start + 2, Region.start + 3>> :> 1)

\* C5: a malformed record (too few fields, or a position that is no number)
\* is skipped without raising, and the table returned is the table of the
\* same lines without the malformed ones.
C5_MalformedLinesSkipped ==
    /\ scan_pc # "raised"
    /\ scan_pc = "returned" => splice_junctions = clean_junctions

\* C6: a record with a malformed operation-run string contributes no
\* junction and does not stop the scan; every junction counted has
\* end > start.
C6_MalformedCigarsSkipped ==
    [][/\ (scan_pc = "body" /\ WellFormedLine(line)
                            /\ ~WellFormedCigar(LineCigar))
          => (splice_junctions' = splice_junctions /\ scan_pc' = "fetch")
       /\ \A k \in DOMAIN splice_junctions' : k[3] > k[2]]_vars

\* C7: in the final output the i-th sample of the header and the i-th cell
\* of every row are the same sample's, both in sorted sample-id order, and
\* a sample without reads for the junction has the cell 0.
C7_HeaderMatchesCells ==
    final.written =>
        \A r \in DOMAIN final.rows :
            /\ final.header = sorted_strs(RangeOf(sample_ids))
            /\ Len(final.rows[r].sample_counts) = Len(final.header)
            /\ \A i \in DOMAIN final.header :
                  final.rows[r].sample_counts[i] =
                      dict_get(final.rows[r].per_sample_counts,
                               final.header[i], 0)

\* C8: in the final output the rows of region g1 all precede the rows of
\* region g2 whenever g1 < g2.
C8_RowsInGeneOrder ==
    final.written =>
        \A i, j \in DOMAIN final.rows :
            i < j => ~str_less(final.rows[j].gene, final.rows[i].gene)

\* C9: no two workers write to the same output file, and when the workers
\* are through every region's file holds that region's rows.
C9_OneFilePerRegion ==
    /\ \A i, j \in DOMAIN tasks :
          (i # j /\ tasks[i].st \in {"open", "done"}
                 /\ tasks[j].st \in {"open", "done"})
          => tasks[i].name # tasks[j].name
    /\ main_pc = "merge" =>
          \A i \in DOMAIN tasks : files[tasks[i].name] = tasks[i].rows

\* C10: when one region fails, every other region of the list is still
\* processed to completion and its output merged.
C10_OtherRegionsCompleted ==
    main_pc \in {"done", "crashed"} =>
        \A k \in DOMAIN transcript_lines :
            (~is_header(transcript_lines[k]) /\ unpacks(transcript_lines[k]))
            => /\ final.written
               /\ \E i \in DOMAIN tasks :
                     /\ pool_args[i] = pool_arg(transcript_lines[k])
                     /\ tasks[i].st = "done"

\* ------------------------------------------------------------------------
\* What the source tables of a re-aggregation say, read off the tables
\* ------------------------------------------------------------------------
RECURSIVE rows_of_folder(_)
rows_of_folder(folder) ==
    IF folder = <<>> THEN <<>>
    ELSE Head(folder) \o rows_of_folder(Tail(folder))

row_key(row) == junction_string(row.chrom, row.start, row.stop)

\* the sum of the counts the rows give sample s for the junction
RECURSIVE source_count(_, _, _)
source_count(rows, key, s) ==
    IF rows = <<>> THEN 0
    ELSE (IF row_key(Head(rows)) = key
          THEN dict_get(Head(rows).samptimes, s, 0) ELSE 0)
         + source_count(Tail(rows), key, s)

source_total(rows, key) ==
    seq_sum([i \in DOMAIN rows |->
                IF row_key(rows[i]) = key
                THEN seq_sum([k \in 1..Len(sorted_strs(DOMAIN rows[i].samptimes)) |->
                        rows[i].samptimes[sorted_strs(DOMAIN rows[i].samptimes)[k]]])
                ELSE 0])

aggregated_as_summed(e, rows) ==
    /\ \A s \in Samples :
           dict_get(e.samptimes, s, 0) = source_count(rows, row_key(e), s)
    /\ e.ntimes = source_total(rows, row_key(e))
    /\ e.nsamp = Cardinality({s \in Samples : source_count(rows, row_key(e), s) # 0})

first_run_done == agg_pc = "done" /\ ~first_output.written

\* C11: after re-aggregating per-sample tables, every junction of the sources
\* has exactly one output row, and in it each sample's count is the sum of
\* that sample's counts over all source rows of the junction, ntimes is the
\* sum of all its counts and nsamp the number of samples with a non-zero sum.
C11_CountsAreSummed ==
    first_run_done =>
        /\ \A i \in DOMAIN output_df.rows :
               aggregated_as_summed(output_df.rows[i],
                                    rows_of_folder(input_junction_folder))
        /\ \A f \in DOMAIN input_junction_folder :
           \A r \in DOMAIN input_junction_folder[f] :
               Cardinality({i \in DOMAIN output_df.rows :
                   row_key(output_df.rows[i])
                       = row_key(input_junction_folder[f][r])}) = 1

\* the same sample in two source tables with the same junction, summed to 3
C11_Witness ==
    /\ first_run_done
    /\ Len(input_junction_folder) = 2
    /\ agg_sample_ids[1] = agg_sample_ids[2]
    /\ \E i \in DOMAIN output_df.rows :
           /\ output_df.rows[i].ntimes = 3
           /\ output_df.rows[i].nsamp = 1
           /\ \E r \in DOMAIN input_junction_folder[1] :
                  row_key(input_junction_folder[1][r]) = row_key(output_df.rows[i])
           /\ \E r \in DOMAIN input_junction_folder[2] :
                  row_key(input_junction_folder[2][r]) = row_key(output_df.rows[i])

\* main's two loops and its tail over the tables of a folder, in one step
RECURSIVE fold_junctions(_, _)
fold_junctions(d, rows) ==
    IF rows = <<>> THEN Return(d)
    ELSE IF add_junction(d, Head(rows)).exc # "none"
         THEN add_junction(d, Head(rows))
         ELSE fold_junctions(add_junction(d, Head(rows)).val, Tail(rows))

aggregate_of(folder) ==
    IF \E f \in DOMAIN folder : sample_id_of_table(folder[f]).exc # "none"
    THEN Raise("IndexError")
    ELSE IF fold_junctions(<<>>, rows_of_folder(folder)).exc # "none"
         THEN fold_junctions(<<>>, rows_of_folder(folder))
         ELSE Return(new_junc_values(
                  fold_junctions(<<>>, rows_of_folder(folder)).val))

\* C12: re-aggregation is commutative: the aggregate of tables A then B has
\* the same rows (junction, gene labels, per-sample counts, ntimes, nsamp) as
\* the aggregate of B then A.
C12_Commutative ==
    (first_run_done /\ Len(input_junction_folder) = 2) =>
        /\ aggregate_of(<<input_junction_folder[2],
                          input_junction_folder[1]>>).exc = "none"
        /\ RangeOf(aggregate_of(<<input_junction_folder[2],
                                  input_junction_folder[1]>>).val)
               = RangeOf(output_df.rows)

\* the first run aggregated more than one sample into one row
multi_sample(rows) ==
    \E i \in DOMAIN rows : Cardinality(DOMAIN rows[i].samptimes) > 1

\* C13: re-aggregation is idempotent: a multi-sample aggregate fed back into
\* re-aggregation together with a table without rows succeeds and gives the
\* same table again.
C13_Idempotent ==
    (/\ first_output.written
     /\ multi_sample(first_output.rows)
     /\ Len(input_junction_folder) = 2
     /\ agg_pc \in {"done", "raised"}) =>
        /\ agg_pc = "done"
        /\ output_df = first_output

\* ------------------------------------------------------------------------
\* What a reference model and a splice file say, read off their entries
\* ------------------------------------------------------------------------
\* the name without its chr prefix, the rest unchanged
without_chr_prefix(name) ==
    IF Len(name) >= 3 /\ SubSeq(name, 1, 3) = <<"c", "h", "r">>
    THEN SubSeq(name, 4, Len(name)) ELSE name

five_keys(c, s, e) ==
    {junction_string(c, s, e),
     junction_string(c, s + 1, e + 1), junction_string(c, s - 1, e - 1),
     junction_string(c, s - 1, e + 1), junction_string(c, s + 1, e - 1)}

\* C14: the annotated junction set of a reference model is exactly the union,
\* over its entries (c, s, e) with the chr prefix of c removed and the rest of
\* the name unchanged, of the keys of (c,s,e), (c,s+1,e+1), (c,s-1,e-1),
\* (c,s-1,e+1) and (c,s+1,e-1).
C14_FlankedKeysOfEveryEntry ==
    norm_pc = "built" =>
        annotated_junction_set =
            UNION {five_keys(without_chr_prefix(transcript_model[i].chrom),
                             transcript_model[i].start,
                             transcript_model[i].stop) :
                   i \in DOMAIN transcript_model}

sample_counts(junction) == dictify_sample_counts_string(junction.samptimes).val

start_key(junction) == position_string(junction.chrom, junction.start)
stop_key(junction) == position_string(junction.chrom, junction.stop)

start_indexed(junction) == start_key(junction) \in DOMAIN annotated_counts
stop_indexed(junction) == stop_key(junction) \in DOMAIN annotated_counts

tagged_by_index(row, junction) ==
    /\ row.full_junction_string =
           junction_string(junction.chrom, junction.start, junction.stop)
    /\ row.tag \in {"Both annotated", "One annotated", "Neither annotated"}
    /\ row.tag = "Both annotated"
           <=> (start_indexed(junction) /\ stop_indexed(junction))
    /\ row.tag = "One annotated"
           <=> (start_indexed(junction) # stop_indexed(junction))
    /\ row.tag = "Neither annotated"
           <=> (~start_indexed(junction) /\ ~stop_indexed(junction))
    /\ row.tag = "Neither annotated" =>
           /\ row.normalized_col_sorted = <<"-">>
           /\ dictify_sample_counts_string(row.samptimes_sorted).val
                  = sample_counts(junction)

support(pos, sample) ==
    IF pos \in DOMAIN annotated_counts
    THEN dict_get(annotated_counts[pos], sample, 0) ELSE 0

\* the denominator of the claim: the larger support for "Both annotated",
\* the support at the end that is present for "One annotated"
claimed_denominator(junction, sample) ==
    max_of(support(start_key(junction), sample),
           support(stop_key(junction), sample))

claimed_value(junction, sample) ==
    IF claimed_denominator(junction, sample) > 0
    THEN format_float(round_3(sample_counts(junction)[sample],
                              claimed_denominator(junction, sample)))
    ELSE py_str(sample_counts(junction)[sample]) \o <<"*">>

\* the column read as the comma-separated sample:value pairs that the counts
\* column is made of
values_recoverable(col, junction) ==
    /\ Len(py_split(col, ",")) = Cardinality(DOMAIN sample_counts(junction))
    /\ \A sample \in DOMAIN sample_counts(junction) :
           \E k \in DOMAIN py_split(col, ",") :
               py_split(py_split(col, ",")[k], ":")
                   = <<sample, claimed_value(junction, sample)>>

\* C16: for every junction with an annotated end, the normalized column
\* gives, separately recoverable for every sample of the junction,
\* round(count/denominator, 3) when the denominator is positive and
\* "<count>*" when it is 0.
C16_RatiosRecoverable ==
    \A i \in DOMAIN printed :
        printed[i].tag # "Neither annotated" =>
            values_recoverable(printed[i].normalized_col_sorted,
                               norm_junctions[i])

is_annotated(junction) ==
    junction_string(junction.chrom, junction.start, junction.stop)
        \in annotated_junction_set

\* the annotated junctions of the splice file that start or stop at pos
touching(pos) ==
    {i \in DOMAIN norm_junctions :
        /\ is_annotated(norm_junctions[i])
        /\ pos \in {start_key(norm_junctions[i]), stop_key(norm_junctions[i])}}

is_max_over(value, T, sample) ==
    /\ \E i \in T : /\ sample \in DOMAIN sample_counts(norm_junctions[i])
                     /\ sample_counts(norm_junctions[i])[sample] = value
    /\ \A i \in T : sample \in DOMAIN sample_counts(norm_junctions[i])
                         => sample_counts(norm_junctions[i])[sample] <= value

AllPositions ==
    {start_key(norm_junctions[i]) : i \in DOMAIN norm_junctions}
    \cup {stop_key(norm_junctions[i]) : i \in DOMAIN norm_junctions}

\* C17: when get_annotated_counts returns, the index holds at (p, s) the maximum
\* count of s over the discovered junctions that are in the annotated set and
\* start or stop at p, and has no entry for a position that only junctions
\* outside the annotated set touch.
C17_IndexHoldsMaxima ==
    (norm_pc = "normalize" /\ norm_i = 1) =>
        /\ DOMAIN annotated_counts = {p \in AllPositions : touching(p) # {}}
        /\ \A p \in DOMAIN annotated_counts :
               /\ DOMAIN annotated_counts[p] =
                      UNION {DOMAIN sample_counts(norm_junctions[i]) :
                             i \in touching(p)}
               /\ \A sample \in DOMAIN annotated_counts[p] :
                      is_max_over(annotated_counts[p][sample], touching(p), sample)

\* two annotated junctions share their start and the first has the larger
\* count of sample a
C17_Witness ==
    /\ norm_pc = "normalize"
    /\ norm_i = 1
    /\ Len(norm_junctions) = 2
    /\ is_annotated(norm_junctions[1]) /\ is_annotated(norm_junctions[2])
    /\ start_key(norm_junctions[1]) = start_key(norm_junctions[2])
    /\ <<"a">> \in DOMAIN sample_counts(norm_junctions[1])
    /\ <<"a">> \in DOMAIN sample_counts(norm_junctions[2])
    /\ sample_counts(norm_junctions[1])[<<"a">>]
           > sample_counts(norm_junctions[2])[<<"a">>]
    /\ sample_counts(norm_junctions[2])[<<"a">>] > 0

\* ------------------------------------------------------------------------
\* The second junction of a record in the scan loop
\* ------------------------------------------------------------------------
first_of_line == get_first_splice_junction(LineCigar, Region.chrom, LinePos)

second_of_line ==
    get_second_splice_junction(
        LineCigar, Region.chrom, LinePos,
        get_end_position_from_junction(first_of_line.val))

\* C18: in the scan loop a second junction is computed from the end of the
\* first junction of the same record in the same pass: the pass counts what
\* it would count with the local unbound at its start (where reading the
\* local raises UnboundLocalError), and after a record with two N runs the
\* local holds the second junction walked from that record's own first one.
C18_SecondFromSameRecord ==
    [][scan_pc = "body" =>
          /\ loop_body(line, Region, splice_junctions, Unbound).exc
                 # "UnboundLocalError"
          /\ splice_junctions'
                 = loop_body(line, Region, splice_junctions, Unbound).sj
          /\ (/\ WellFormedLine(line)
              /\ StrictlyInside(LinePos)
              /\ py_count(LineCigar, "N") = 2
              /\ first_of_line.exc = NoExc
              /\ second_of_line.exc = NoExc)
                 => unique_splice_junction' = Bound(second_of_line.val)]_vars

\* a record with two N runs has been scanned after a record that left its
\* junction in the local, and all three junctions are counted
C18_Witness ==
    /\ scan_pc = "fetch"
    /\ n_read = 2
    /\ WellFormedLine(line)
    /\ StrictlyInside(LinePos)
    /\ py_count(LineCigar, "N") = 2
    /\ unique_splice_junction.bound
    /\ Cardinality(DOMAIN splice_junctions) = 3

\* ------------------------------------------------------------------------
\* What a single-sample discovery output says, read off its lines
\* ------------------------------------------------------------------------
header_sample == py_rstrip(splice_file[1][8], Whitespace)

row_count(l) == py_int(py_rstrip(l[8], Whitespace))

reformatted_from(junction, l) ==
    /\ junction.gene = l[1]
    /\ junction.chrom = l[3]
    /\ junction.start = l[4]
    /\ junction.stop = l[5]
    /\ junction.samptimes = (header_sample :> row_count(l))

\* C19: reformatting a single-sample discovery output keeps every junction
\* row: the call succeeds and the i-th data row of the file is the i-th
\* reformatted junction, with samptimes {sample of the header: count of the
\* row}; no row is dropped or duplicated.
C19_EveryRowReformatted ==
    reformat_pc \in {"done", "raised"} =>
        /\ reformat_pc = "done"
        /\ Len(junctions) = Len(splice_file) - 1
        /\ \A i \in DOMAIN junctions :
               reformatted_from(junctions[i], splice_file[i + 1])

\* ------------------------------------------------------------------------
\* The totals of a row of a per-region output
\* ------------------------------------------------------------------------
nonzero_cells(row) ==
    {i \in DOMAIN row.sample_counts : row.sample_counts[i] # 0}

totals_match_cells(row) ==
    /\ row.total_count = seq_sum(row.sample_counts)
    /\ row.num_samples = Cardinality(nonzero_cells(row))
    /\ row.total_count >= row.num_samples
    /\ row.num_samples >= 1

\* C20: in every row a region's worker writes, NTimesSeen is the sum of the
\* row's sample cells, NSamplesSeen is the number of cells that are not 0,
\* and NTimesSeen >= NSamplesSeen >= 1.
C20_TotalsMatchCells ==
    /\ \A i \in DOMAIN tasks :
           tasks[i].st \in {"open", "done"} =>
               \A r \in DOMAIN tasks[i].rows : totals_match_cells(tasks[i].rows[r])
    /\ \A name \in DOMAIN files :
           \A r \in DOMAIN files[name] : totals_match_cells(files[name][r])
    /\ final.written =>
           \A r \in DOMAIN final.rows : totals_match_cells(final.rows[r])

\* a written row of two samples: one saw the junction twice, the other never
C20_Witness ==
    \E name \in DOMAIN files :
        \E r \in DOMAIN files[name] :
            /\ Len(files[name][r].sample_counts) = 2
            /\ files[name][r].total_count = 2
            /\ files[name][r].num_samples = 1
            /\ \E i \in DOMAIN files[name][r].sample_counts :
                   files[name][r].sample_counts[i] = 0

====
